---------------------------- MODULE Spec2Model ----------------------------
(***************************************************************************)
(* Model of src/src/crypto.rs (sigstore-rs): the certificate trust checks  *)
(* of verify_certificate_can_be_trusted and the signature verification of  *)
(* verify_signature.                                                       *)
(*                                                                         *)
(* Error kinds carry the names of the SigstoreError variants the code      *)
(* returns.  The specification's names correspond to them as follows:      *)
(*   IssuerMismatch               X509Error                                *)
(*   MissingDigitalSignatureUsage CertificateWithoutDigitalSignatureKeyUsage*)
(*   MissingCodeSigningUsage      CertificateWithoutCodeSigningKeyUsage    *)
(*   MissingIdentityBinding       CertificateWithoutSubjectAlternativeName *)
(*   NotYetValid                  CertificateValidityError                 *)
(*   SignedBeforeCertValid   CertificateExpiredBeforeSignaturesSubmittedToRekor *)
(*   SignedAfterCertExpired  CertificateIssuedAfterSignaturesSubmittedToRekor   *)
(*   Base64DecodeError            Base64DecodeError                        *)
(*   SignatureInvalid             EcdsaError                               *)
(* The payload strings of the errors (RFC 2822 renderings of the times)    *)
(* are not modelled: only the kind is.                                     *)
(***************************************************************************)
EXTENDS Integers, Sequences, FiniteSets, TLC

(***************************************************************************)
(* Bounds.  Times are Unix-epoch seconds; 0..MaxTime stands for an ordered *)
(* range of instants.                                                      *)
(***************************************************************************)
MaxTime == 2

Times == 0..MaxTime

(***************************************************************************)
(* The outcomes of the trust checks.                                       *)
(***************************************************************************)
Ok == "Ok"

TrustErrors ==
    { "X509Error",
      "CertificateWithoutDigitalSignatureKeyUsage",
      "CertificateWithoutCodeSigningKeyUsage",
      "CertificateWithoutSubjectAlternativeName",
      "CertificateValidityError",
      "CertificateExpiredBeforeSignaturesSubmittedToRekor",
      "CertificateIssuedAfterSignaturesSubmittedToRekor" }

(***************************************************************************)
(* Rust's Option: None is the empty sequence, Some(v) the sequence <<v>>.  *)
(***************************************************************************)
None == << >>

Some(v) == << v >>

(***************************************************************************)
(* Parsed certificates (X509Certificate).  The issuer's signature is       *)
(* idealised: it records the key that made it and the to-be-signed body it *)
(* was made over, which is the certificate's own body unless the body was  *)
(* changed after signing.                                                  *)
(***************************************************************************)
CAKeys == { "ca_x", "ca_y" }

KeyUsages == { None } \cup { Some([ digital_signature |-> b ]) : b \in BOOLEAN }

ExtendedKeyUsages == { None } \cup { Some([ code_signing |-> b ]) : b \in BOOLEAN }

SubjectAlternativeNames == { None, Some("email"), Some("uri") }

TbsCertificates ==
    [ key_usage : KeyUsages,
      extended_key_usage : ExtendedKeyUsages,
      subject_alternative_name : SubjectAlternativeNames,
      validity : [ not_before : Times, not_after : Times ] ]

OtherTbs == [ other_body |-> TRUE ]

\* The certificate a CA key issues over `tbs`; `intact` is FALSE when the body
\* the signature was made over is not the one the certificate carries.
IssuedCertificate(tbs, signer, intact) ==
    [ tbs_certificate |-> tbs,
      signature |-> [ signer |-> signer,
                      signed |-> IF intact THEN tbs ELSE OtherTbs ] ]

Certificates ==
    { IssuedCertificate(t, k, i) :
        t \in TbsCertificates, k \in CAKeys, i \in BOOLEAN }

(***************************************************************************)
(* X509Certificate::verify_signature(Some(key)): the signature stored in   *)
(* the certificate verifies when it was made by `key` over the body the    *)
(* certificate now carries.                                                *)
(***************************************************************************)
X509VerifySignature(certificate, public_key) ==
    /\ certificate.signature.signer = public_key
    /\ certificate.signature.signed = certificate.tbs_certificate

(***************************************************************************)
(* The five checks, each a function of its arguments returning Ok or the   *)
(* kind of the error it returns.                                           *)
(***************************************************************************)
\* Faulty variant: the signature is checked against the body only, whoever made it.
verify_issuer_any_signer(certificate, ca_issuer_public_key) ==
    IF certificate.signature.signed = certificate.tbs_certificate
    THEN Ok
    ELSE "X509Error"

verify_issuer(certificate, ca_issuer_public_key) ==
    IF X509VerifySignature(certificate, ca_issuer_public_key)
    THEN Ok
    ELSE "X509Error"

\* Faulty variant: the extended key usage is looked at before the key usage.
verify_certificate_key_usages_eku_first(certificate) ==
    LET key_usage == certificate.tbs_certificate.key_usage
        ext_key_usage == certificate.tbs_certificate.extended_key_usage
    IN  IF ext_key_usage = None
        THEN "CertificateWithoutCodeSigningKeyUsage"
        ELSE IF ~ ext_key_usage[1].code_signing
        THEN "CertificateWithoutCodeSigningKeyUsage"
        ELSE IF key_usage = None
        THEN "CertificateWithoutDigitalSignatureKeyUsage"
        ELSE IF ~ key_usage[1].digital_signature
        THEN "CertificateWithoutDigitalSignatureKeyUsage"
        ELSE Ok

\* Faulty variant: the extensions are looked for, their bits are not.
verify_certificate_key_usages_presence_only(certificate) ==
    LET key_usage == certificate.tbs_certificate.key_usage
        ext_key_usage == certificate.tbs_certificate.extended_key_usage
    IN  IF key_usage = None
        THEN "CertificateWithoutDigitalSignatureKeyUsage"
        ELSE IF ext_key_usage = None
        THEN "CertificateWithoutCodeSigningKeyUsage"
        ELSE Ok

verify_certificate_key_usages(certificate) ==
    LET key_usage == certificate.tbs_certificate.key_usage
        ext_key_usage == certificate.tbs_certificate.extended_key_usage
    IN  IF key_usage = None
        THEN "CertificateWithoutDigitalSignatureKeyUsage"
        ELSE IF ~ key_usage[1].digital_signature
        THEN "CertificateWithoutDigitalSignatureKeyUsage"
        ELSE IF ext_key_usage = None
        THEN "CertificateWithoutCodeSigningKeyUsage"
        ELSE IF ~ ext_key_usage[1].code_signing
        THEN "CertificateWithoutCodeSigningKeyUsage"
        ELSE Ok

\* Faulty variant: the key usage extension is looked for, its bit is not.
verify_key_usage_digital_signature_presence_only(certificate) ==
    IF certificate.tbs_certificate.key_usage = None
    THEN "CertificateWithoutDigitalSignatureKeyUsage"
    ELSE Ok

\* The first half of verify_certificate_key_usages, taken alone.
verify_key_usage_digital_signature(certificate) ==
    LET key_usage == certificate.tbs_certificate.key_usage
    IN  IF key_usage = None
        THEN "CertificateWithoutDigitalSignatureKeyUsage"
        ELSE IF ~ key_usage[1].digital_signature
        THEN "CertificateWithoutDigitalSignatureKeyUsage"
        ELSE Ok

\* The second half of verify_certificate_key_usages, taken alone.
verify_extended_key_usage_code_signing(certificate) ==
    LET ext_key_usage == certificate.tbs_certificate.extended_key_usage
    IN  IF ext_key_usage = None
        THEN "CertificateWithoutCodeSigningKeyUsage"
        ELSE IF ~ ext_key_usage[1].code_signing
        THEN "CertificateWithoutCodeSigningKeyUsage"
        ELSE Ok

\* Faulty variant: only an email address counts as an identity.
verify_certificate_has_san_email_only(certificate) ==
    IF certificate.tbs_certificate.subject_alternative_name # Some("email")
    THEN "CertificateWithoutSubjectAlternativeName"
    ELSE Ok

verify_certificate_has_san(certificate) ==
    IF certificate.tbs_certificate.subject_alternative_name = None
    THEN "CertificateWithoutSubjectAlternativeName"
    ELSE Ok

\* Faulty variant: a certificate that has expired by now is refused as well.
verify_certificate_validity_and_expiry(certificate, now) ==
    LET validity == certificate.tbs_certificate.validity
    IN  IF now < validity.not_before \/ now > validity.not_after
        THEN "CertificateValidityError"
        ELSE Ok

\* Faulty variant: the instant not_before itself is refused.
verify_certificate_validity_strict(certificate, now) ==
    LET validity == certificate.tbs_certificate.validity
    IN  IF now <= validity.not_before
        THEN "CertificateValidityError"
        ELSE Ok

\* `now` is the value ASN1Time::now() returned inside the function.
verify_certificate_validity(certificate, now) ==
    LET validity == certificate.tbs_certificate.validity
    IN  IF now < validity.not_before
        THEN "CertificateValidityError"
        ELSE Ok

\* Faulty variant: the upper bound of the window is not looked at.
verify_certificate_expiration_no_upper_bound(certificate, integrated_time) ==
    LET it == integrated_time
        validity == certificate.tbs_certificate.validity
    IN  IF it < validity.not_before
        THEN "CertificateExpiredBeforeSignaturesSubmittedToRekor"
        ELSE Ok

\* Faulty variant: the instant not_after itself is outside the window.
verify_certificate_expiration_exclusive(certificate, integrated_time) ==
    LET it == integrated_time
        validity == certificate.tbs_certificate.validity
    IN  IF it < validity.not_before
        THEN "CertificateExpiredBeforeSignaturesSubmittedToRekor"
        ELSE IF it >= validity.not_after
        THEN "CertificateIssuedAfterSignaturesSubmittedToRekor"
        ELSE Ok

verify_certificate_expiration(certificate, integrated_time) ==
    LET it == integrated_time
        validity == certificate.tbs_certificate.validity
    IN  IF it < validity.not_before
        THEN "CertificateExpiredBeforeSignaturesSubmittedToRekor"
        ELSE IF it > validity.not_after
        THEN "CertificateIssuedAfterSignaturesSubmittedToRekor"
        ELSE Ok

(***************************************************************************)
(* verify_signature.  Texts are sequences of one-character strings, bytes  *)
(* are numbers in 0..255.                                                  *)
(***************************************************************************)
B64Chars ==
    << "A", "B", "C", "D", "E", "F", "G", "H", "I", "J", "K", "L", "M",
       "N", "O", "P", "Q", "R", "S", "T", "U", "V", "W", "X", "Y", "Z",
       "a", "b", "c", "d", "e", "f", "g", "h", "i", "j", "k", "l", "m",
       "n", "o", "p", "q", "r", "s", "t", "u", "v", "w", "x", "y", "z",
       "0", "1", "2", "3", "4", "5", "6", "7", "8", "9", "+", "/" >>

IsB64Char(ch) == \E i \in DOMAIN B64Chars : B64Chars[i] = ch

B64Value(ch) == (CHOOSE i \in DOMAIN B64Chars : B64Chars[i] = ch) - 1

\* The number of "=" characters that end the text, two at most.
PadCount(text) ==
    IF Len(text) >= 2 /\ text[Len(text)] = "=" /\ text[Len(text) - 1] = "="
    THEN 2
    ELSE IF Len(text) >= 1 /\ text[Len(text)] = "="
    THEN 1
    ELSE 0

\* The bytes of a sequence of 6-bit values, four values to three bytes; the
\* last group may hold two or three values.
RECURSIVE DecodeGroups(_)
DecodeGroups(vals) ==
    IF Len(vals) = 0 THEN << >>
    ELSE IF Len(vals) >= 4
    THEN LET n == vals[1] * 262144 + vals[2] * 4096 + vals[3] * 64 + vals[4]
         IN  << n \div 65536, (n \div 256) % 256, n % 256 >>
               \o DecodeGroups(SubSeq(vals, 5, Len(vals)))
    ELSE IF Len(vals) = 3
    THEN LET n == vals[1] * 4096 + vals[2] * 64 + vals[3]
         IN  << n \div 1024, (n \div 4) % 256 >>
    ELSE << (vals[1] * 64 + vals[2]) \div 16 >>

\* The bits of the last group that belong to no byte.
TrailingBits(vals) ==
    IF Len(vals) % 4 = 3 THEN vals[Len(vals)] % 4
    ELSE IF Len(vals) % 4 = 2 THEN vals[Len(vals)] % 16
    ELSE 0

\* Faulty variant: characters outside the alphabet are skipped, not refused.
Base64DecodeSkipping(text) ==
    LET pad == PadCount(text)
        body == SelectSeq(SubSeq(text, 1, Len(text) - pad), IsB64Char)
        vals == [ i \in DOMAIN body |-> B64Value(body[i]) ]
    IN  IF Len(body) % 4 = 1
        THEN [ ok |-> FALSE, bytes |-> << >> ]
        ELSE IF TrailingBits(vals) # 0
        THEN [ ok |-> FALSE, bytes |-> << >> ]
        ELSE [ ok |-> TRUE, bytes |-> DecodeGroups(vals) ]

(***************************************************************************)
(* base64::decode with the standard alphabet: an error for a character     *)
(* outside the alphabet, for padding that does not complete a group of     *)
(* four, for a length no byte sequence encodes and for set bits after the  *)
(* last byte; the decoded bytes otherwise.                                 *)
(***************************************************************************)
Base64Decode(text) ==
    LET pad == PadCount(text)
        body == SubSeq(text, 1, Len(text) - pad)
        vals == [ i \in DOMAIN body |-> B64Value(body[i]) ]
    IN  IF \E i \in DOMAIN body : ~ IsB64Char(body[i])
        THEN [ ok |-> FALSE, bytes |-> << >> ]
        ELSE IF Len(body) % 4 = 1
        THEN [ ok |-> FALSE, bytes |-> << >> ]
        ELSE IF pad > 0 /\ (Len(body) + pad) % 4 # 0
        THEN [ ok |-> FALSE, bytes |-> << >> ]
        ELSE IF TrailingBits(vals) # 0
        THEN [ ok |-> FALSE, bytes |-> << >> ]
        ELSE [ ok |-> TRUE, bytes |-> DecodeGroups(vals) ]

\* The value of a big-endian sequence of bytes.
RECURSIVE BytesValue(_)
BytesValue(bytes) ==
    IF Len(bytes) = 0 THEN 0
    ELSE (BytesValue(SubSeq(bytes, 1, Len(bytes) - 1)) * 256) + bytes[Len(bytes)]

\* A DER INTEGER content that is a non-negative number in its shortest form.
IsDerUInt(bytes) ==
    /\ Len(bytes) >= 1
    /\ bytes[1] < 128
    /\ Len(bytes) > 1 /\ bytes[1] = 0 => bytes[2] >= 128

(***************************************************************************)
(* Signature::<NistP256>::from_der: the bytes are SEQUENCE { INTEGER r,    *)
(* INTEGER s } with nothing after it, and r and s are not zero.            *)
(***************************************************************************)
SignatureFromDer(bytes) ==
    LET bad == [ ok |-> FALSE, r |-> 0, s |-> 0 ]
    IN  IF \/ Len(bytes) < 8
           \/ bytes[1] # 48
           \/ bytes[2] >= 128
           \/ bytes[2] # Len(bytes) - 2
           \/ bytes[3] # 2
        THEN bad
        ELSE LET lr == bytes[4]
             IN  IF lr < 1 \/ 4 + lr + 2 >= Len(bytes) \/ bytes[4 + lr + 1] # 2
                 THEN bad
                 ELSE LET ls == bytes[4 + lr + 2]
                          rb == SubSeq(bytes, 5, 4 + lr)
                          sb == SubSeq(bytes, 4 + lr + 3, Len(bytes))
                      IN  IF ls # Len(sb) \/ ~ IsDerUInt(rb) \/ ~ IsDerUInt(sb)
                          THEN bad
                          ELSE IF BytesValue(rb) = 0 \/ BytesValue(sb) = 0
                          THEN bad
                          ELSE [ ok |-> TRUE, r |-> BytesValue(rb), s |-> BytesValue(sb) ]

(***************************************************************************)
(* ECDSA over P-256, idealised.  A signature (r, s) made with a key over a *)
(* message with nonce k has r = k, and s is a code that no other pair of a *)
(* key and a message has for that nonce: only the key and the message a    *)
(* signature was made with verify it.  Messages stand for their SHA-256    *)
(* digests, which are taken not to collide.                                *)
(***************************************************************************)
MaxNonce == 2

VerificationKeys == << "key_a", "key_b" >>

Messages == << "manifest", "hello world" >>

IndexOf(seq, x) == CHOOSE i \in DOMAIN seq : seq[i] = x

Pairs == Len(VerificationKeys) * Len(Messages)

EcdsaSign(key, message, k) ==
    [ r |-> k,
      s |-> 1 + ( ( (IndexOf(VerificationKeys, key) - 1) * Len(Messages)
                    + (IndexOf(Messages, message) - 1) + k ) % Pairs ) ]

\* Faulty variant: the signature is checked against the key, not the message.
EcdsaVerifyAnyMessage(verification_key, message, signature) ==
    /\ signature.r \in 1..MaxNonce
    /\ \E i \in DOMAIN Messages :
          signature = EcdsaSign(verification_key, Messages[i], signature.r)

\* VerifyingKey::verify(msg, &signature)
EcdsaVerify(verification_key, message, signature) ==
    /\ signature.r \in 1..MaxNonce
    /\ signature = EcdsaSign(verification_key, message, signature.r)

(***************************************************************************)
(* The three outcomes of verify_signature that are errors.  Both           *)
(* Signature::from_der and VerifyingKey::verify return an ecdsa::Error,    *)
(* which `?` converts to the one variant EcdsaError.                       *)
(***************************************************************************)
FromBase64DecodeError == "Base64DecodeError"

FromEcdsaError == "EcdsaError"

(***************************************************************************)
(* The inputs of the calls of verify_signature: texts a signer produces    *)
(* (the base64 text of the DER encoding of a signature) and damaged ones.  *)
(***************************************************************************)
\* The shortest big-endian bytes of a number, with a leading zero byte when
\* the first byte would read as a sign.
RECURSIVE ValueBytes(_)
ValueBytes(n) ==
    IF n < 256 THEN << n >> ELSE Append(ValueBytes(n \div 256), n % 256)

DerUInt(n) ==
    LET b == ValueBytes(n)
        c == IF b[1] >= 128 THEN << 0 >> \o b ELSE b
    IN  << 2, Len(c) >> \o c

DerSignature(r, s) ==
    LET content == DerUInt(r) \o DerUInt(s)
    IN  << 48, Len(content) >> \o content

RECURSIVE Base64Encode(_)
Base64Encode(bytes) ==
    IF Len(bytes) = 0 THEN << >>
    ELSE IF Len(bytes) >= 3
    THEN LET n == bytes[1] * 65536 + bytes[2] * 256 + bytes[3]
         IN  << B64Chars[(n \div 262144) + 1], B64Chars[((n \div 4096) % 64) + 1],
                B64Chars[((n \div 64) % 64) + 1], B64Chars[(n % 64) + 1] >>
               \o Base64Encode(SubSeq(bytes, 4, Len(bytes)))
    ELSE IF Len(bytes) = 2
    THEN LET n == (bytes[1] * 256 + bytes[2]) * 4
         IN  << B64Chars[(n \div 4096) + 1], B64Chars[((n \div 64) % 64) + 1],
                B64Chars[(n % 64) + 1], "=" >>
    ELSE LET n == bytes[1] * 16
         IN  << B64Chars[(n \div 64) + 1], B64Chars[(n % 64) + 1], "=", "=" >>

\* The (r, s) pairs the calls are given: every signature a key makes, and
\* pairs no key makes for any message.
SignatureValues == [ r : 1..MaxNonce, s : 1..(Pairs + 1) ]

WellFormedTexts == { Base64Encode(DerSignature(v.r, v.s)) : v \in SignatureValues }

\* Base64 of bytes that are no DER signature: nothing at all, a cut encoding,
\* another tag, bytes after the end, r = 0, and an encoding of r that is not
\* the shortest.
MalformedDers ==
    LET der == DerSignature(1, 1)
    IN  { << >>,
          SubSeq(der, 1, Len(der) - 1),
          [ der EXCEPT ![1] = 49 ],
          Append(der, 0),
          DerSignature(0, 1),
          << 48, 7, 2, 2, 0, 1, 2, 1, 1 >> }

MalformedTexts == { Base64Encode(b) : b \in MalformedDers }

\* Texts that are not base64: the text of the test, a signature's text with
\* a character outside the alphabet, with one character cut off and with
\* padding in the middle.
NotBase64Texts ==
    LET text == Base64Encode(DerSignature(1, 1))
    IN  { << "t", "h", "i", "s", " ", "i", "s", " ", "a", " ",
             "s", "i", "g", "n", "a", "t", "u", "r", "e" >>,
          [ text EXCEPT ![3] = "*" ],
          SubSeq(text, 1, 9),
          [ text EXCEPT ![2] = "=" ] }

SignatureTexts == WellFormedTexts \cup MalformedTexts \cup NotBase64Texts

(***************************************************************************)
(* Key material.  The bytes of a DER document are modelled by what they    *)
(* encode: a SubjectPublicKeyInfo, an X.509 certificate that embeds one,   *)
(* or nothing that parses.  A PEM text has a label, an armor (the BEGIN    *)
(* and END lines and the base64 body) that is well-formed or not, and the  *)
(* DER document its body holds.                                            *)
(***************************************************************************)
SubjectPublicKeyInfos ==
    [ algorithm : { "id-ecPublicKey", "rsaEncryption" },
      curve : { "prime256v1", "secp384r1" },
      point_ok : BOOLEAN ]

DerSpki(spki) == [ der |-> "spki", spki |-> Some(spki) ]

DerCertificate(spki) == [ der |-> "certificate", spki |-> Some(spki) ]

DerGarbage == [ der |-> "garbage", spki |-> None ]

DerDocs ==
    { DerSpki(k) : k \in SubjectPublicKeyInfos }
      \cup { DerCertificate(k) : k \in SubjectPublicKeyInfos }
      \cup { DerGarbage }

PemDocs ==
    [ label : { "PUBLIC KEY", "CERTIFICATE" }, armor_ok : BOOLEAN, contents : DerDocs ]

\* Rust's Result: Ok(v) and Err(e).
ResultOk(v) == [ ok |-> Some(v), err |-> None ]

ResultErr(e) == [ ok |-> None, err |-> Some(e) ]

IsOk(r) == r.ok # None

\* VerifyingKey::<p256::NistP256>::from_public_key_der: the bytes are a
\* SubjectPublicKeyInfo of an elliptic-curve key on P-256 whose point is on
\* the curve.
FromPublicKeyDer(bytes) ==
    IF /\ bytes.der = "spki"
       /\ bytes.spki[1].algorithm = "id-ecPublicKey"
       /\ bytes.spki[1].curve = "prime256v1"
       /\ bytes.spki[1].point_ok
    THEN ResultOk([ verifying_key |-> bytes.spki[1] ])
    ELSE ResultErr("pkcs8::Error")

\* VerifyingKey::<p256::NistP256>::from_public_key_pem: the armor is that of
\* a PUBLIC KEY, and its body is read as from_public_key_der reads it.
FromPublicKeyPem(contents) ==
    IF contents.armor_ok /\ contents.label = "PUBLIC KEY"
    THEN FromPublicKeyDer(contents.contents)
    ELSE ResultErr("pkcs8::Error")

\* The closure of map_err: every error of the library becomes InvalidKeyFormat.
MapErrInvalidKeyFormat(r) ==
    IF IsOk(r) THEN r ELSE ResultErr("InvalidKeyFormat")

\* Faulty variant: the error of the library is passed on as it is.
new_verification_key_unmapped(contents) == FromPublicKeyPem(contents)

new_verification_key(contents) ==
    MapErrInvalidKeyFormat(FromPublicKeyPem(contents))

new_verification_key_from_public_key_der(bytes) ==
    MapErrInvalidKeyFormat(FromPublicKeyDer(bytes))

\* x509_parser::pem::parse_x509_pem: any label is read; the armor has to be
\* well-formed.
ParseX509PemOf(cert) ==
    IF cert.armor_ok THEN ResultOk(cert) ELSE ResultErr("nom::Err<PEMError>")

\* x509_parser::parse_x509_certificate
ParseX509CertificateOf(contents) ==
    IF contents.der = "certificate"
    THEN ResultOk(contents)
    ELSE ResultErr("nom::Err<X509Error>")

\* res_x509.public_key().raw.to_owned(): the bytes of the embedded
\* SubjectPublicKeyInfo, as they are.
PublicKeyRaw(res_x509) == DerSpki(res_x509.spki[1])

(***************************************************************************)
(* The conversions `?` applies in extract_public_key_from_pem_cert to the  *)
(* errors of the two parsers, as the specification states them (section    *)
(* 4.1 and the error taxonomy): both become CertificateParseError.         *)
(***************************************************************************)
FromPemError == "CertificateParseError"

FromX509ParseError == "CertificateParseError"

(***************************************************************************)
(* The two verifiers as functions of their arguments.  `?` returns the     *)
(* first error; `now` is the value ASN1Time::now() returns to the call.    *)
(***************************************************************************)
Try(outcome, rest) == IF outcome = Ok THEN rest ELSE outcome

verify_certificate_can_be_trusted(certificate, ca_issuer_public_key, integrated_time, now) ==
    Try(verify_issuer(certificate, ca_issuer_public_key),
    Try(verify_certificate_key_usages(certificate),
    Try(verify_certificate_has_san(certificate),
    Try(verify_certificate_validity(certificate, now),
    Try(verify_certificate_expiration(certificate, integrated_time),
        Ok)))))

verify_signature(verification_key, signature_str, msg) ==
    LET decoded == Base64Decode(signature_str)
    IN  IF ~decoded.ok
        THEN FromBase64DecodeError
        ELSE LET parsed == SignatureFromDer(decoded.bytes)
             IN  IF ~parsed.ok
                 THEN FromEcdsaError
                 ELSE IF EcdsaVerify(verification_key, msg,
                                     [ r |-> parsed.r, s |-> parsed.s ])
                      THEN Ok
                      ELSE FromEcdsaError

(***************************************************************************)
(* State: one call of verify_certificate_can_be_trusted, one call of       *)
(* verify_signature, and the system clock.  The arguments of a call are    *)
(* immutable borrows: no step changes them.                                *)
(***************************************************************************)
VARIABLES
    clock,                 \* the system clock ASN1Time::now() reads
    certificate,           \* argument: the parsed certificate
    ca_issuer_public_key,  \* argument: the CA key
    integrated_time,       \* argument: the transparency log's timestamp
    pc,                    \* the check the call is about to run, or "done"
    now,                   \* the clock value the call read, None before
    checked,               \* the checks run so far, each with its outcome
    result,                \* None while running, then Some(Ok or error kind)
    verification_key,      \* argument of verify_signature: the key
    signature_str,         \* argument of verify_signature: the base64 text
    msg,                   \* argument of verify_signature: the message
    sig_pc,                \* the statement verify_signature is about to run
    signature_raw,         \* the decoded bytes, None before
    signature,             \* the parsed signature, None before
    sig_checked,           \* the statements run so far, each with its outcome
    sig_result,            \* None while running, then Some(Ok or error kind)
    key_op,                \* the function of the key loader that is called
    key_input,             \* its argument: a PEM text or DER bytes
    key_pc,                \* the statement the call is about to run
    key_pem,               \* the PEM block parse_x509_pem returned, None before
    key_result,            \* None while running, then Some(Result)
    calls,                 \* concurrent calls: the local bindings of each
    perm_now,              \* the time reading given to a reordered run
    perm_ran,              \* the checks a reordered run has passed
    perm_result,           \* None while it runs, then Some(Ok or error kind)
    previous               \* what the preceding call on these arguments returned

trust_vars ==
    << clock, certificate, ca_issuer_public_key, integrated_time,
       pc, now, checked, result >>

sig_vars ==
    << verification_key, signature_str, msg,
       sig_pc, signature_raw, signature, sig_checked, sig_result >>

key_vars == << key_op, key_input, key_pc, key_pem, key_result >>

\* What neither verify_certificate_can_be_trusted nor verify_signature touches.
conc_vars == << calls >>

perm_vars == << perm_now, perm_ran, perm_result >>

repeat_vars == << previous >>

rest_vars == << key_vars, conc_vars, perm_vars, repeat_vars >>

vars == << trust_vars, sig_vars, rest_vars >>

args == << certificate, ca_issuer_public_key, integrated_time >>

sig_args == << verification_key, signature_str, msg >>

\* A call of verify_certificate_can_be_trusted starts.
TrustInit ==
    /\ clock \in Times
    /\ certificate \in Certificates
    /\ ca_issuer_public_key \in CAKeys
    /\ integrated_time \in Times
    /\ pc = "verify_issuer"
    /\ now = None
    /\ checked = << >>
    /\ result = None

\* No call of verify_certificate_can_be_trusted is made.
TrustIdle ==
    /\ clock = 0
    /\ certificate = None
    /\ ca_issuer_public_key = None
    /\ integrated_time = 0
    /\ pc = "idle"
    /\ now = None
    /\ checked = << >>
    /\ result = None

\* A call of verify_signature starts.
SigInit ==
    /\ verification_key \in { VerificationKeys[i] : i \in DOMAIN VerificationKeys }
    /\ signature_str \in SignatureTexts
    /\ msg \in { Messages[i] : i \in DOMAIN Messages }
    /\ sig_pc = "base64_decode"
    /\ signature_raw = None
    /\ signature = None
    /\ sig_checked = << >>
    /\ sig_result = None

\* No call of verify_signature is made.
SigIdle ==
    /\ verification_key = None
    /\ signature_str = << >>
    /\ msg = None
    /\ sig_pc = "idle"
    /\ signature_raw = None
    /\ signature = None
    /\ sig_checked = << >>
    /\ sig_result = None

KeyOps ==
    { "new_verification_key", "new_verification_key_from_public_key_der",
      "extract_public_key_from_pem_cert" }

\* A call of one of the three functions of the key loader starts.
KeyInit ==
    /\ key_op \in KeyOps
    /\ key_input \in IF key_op = "new_verification_key_from_public_key_der"
                     THEN DerDocs
                     ELSE PemDocs
    /\ key_pc = IF key_op = "extract_public_key_from_pem_cert"
                THEN "parse_x509_pem"
                ELSE key_op
    /\ key_pem = None
    /\ key_result = None

\* No function of the key loader is called.
KeyIdle ==
    /\ key_op = "none"
    /\ key_input = None
    /\ key_pc = "idle"
    /\ key_pem = None
    /\ key_result = None

\* No concurrent calls are made.
ConcIdle == calls = << >>

\* No call came before this one.
RepeatIdle == previous = None

\* No reordered run is made.
PermIdle ==
    /\ perm_now = 0
    /\ perm_ran = { }
    /\ perm_result = None

(***************************************************************************)
(* A call `check(..)?;` of the body: the check at pc has returned          *)
(* `outcome`.  An error returns from the whole call at once; Ok goes on to *)
(* the statement `next`, or to the final Ok(()) when nothing is left.      *)
(***************************************************************************)
Question(outcome, next) ==
    /\ checked' = Append(checked, [ check |-> pc, outcome |-> outcome ])
    /\ IF outcome = Ok
       THEN /\ pc' = next
            /\ result' = IF next = "done" THEN Some(Ok) ELSE result
       ELSE /\ pc' = "done"
            /\ result' = Some(outcome)

VerifyIssuer ==
    /\ pc = "verify_issuer"
    /\ Question(verify_issuer(certificate, ca_issuer_public_key),
                "verify_certificate_key_usages")
    /\ UNCHANGED << clock, args, now, sig_vars, rest_vars >>

VerifyCertificateKeyUsages ==
    /\ pc = "verify_certificate_key_usages"
    /\ Question(verify_certificate_key_usages(certificate),
                "verify_certificate_has_san")
    /\ UNCHANGED << clock, args, now, sig_vars, rest_vars >>

VerifyCertificateHasSan ==
    /\ pc = "verify_certificate_has_san"
    /\ Question(verify_certificate_has_san(certificate),
                "verify_certificate_validity")
    /\ UNCHANGED << clock, args, now, sig_vars, rest_vars >>

\* Faulty variant: the clock is read, and the bound is compared with the
\* integrated time.
VerifyCertificateValidityByIntegratedTime ==
    /\ pc = "verify_certificate_validity"
    /\ now' = Some(clock)
    /\ Question(verify_certificate_validity(certificate, integrated_time),
                "verify_certificate_expiration")
    /\ UNCHANGED << clock, args, sig_vars, rest_vars >>

\* The one statement that reads the clock: `let now = ASN1Time::now();`.
VerifyCertificateValidity ==
    /\ pc = "verify_certificate_validity"
    /\ now' = Some(clock)
    /\ Question(verify_certificate_validity(certificate, clock),
                "verify_certificate_expiration")
    /\ UNCHANGED << clock, args, sig_vars, rest_vars >>

VerifyCertificateExpiration ==
    /\ pc = "verify_certificate_expiration"
    /\ Question(verify_certificate_expiration(certificate, integrated_time), "done")
    /\ UNCHANGED << clock, args, now, sig_vars, rest_vars >>

\* Time passes: the clock never goes back.
Tick ==
    /\ clock < MaxTime
    /\ clock' = clock + 1
    /\ UNCHANGED << args, pc, now, checked, result, sig_vars, rest_vars >>

(***************************************************************************)
(* The three statements of verify_signature.  SigQuestion is the `?` of    *)
(* each: an error returns from the call at once, converted to its          *)
(* SigstoreError variant.                                                  *)
(***************************************************************************)
SigQuestion(outcome, next) ==
    /\ sig_checked' = Append(sig_checked, [ check |-> sig_pc, outcome |-> outcome ])
    /\ IF outcome = Ok
       THEN /\ sig_pc' = next
            /\ sig_result' = IF next = "done" THEN Some(Ok) ELSE sig_result
       ELSE /\ sig_pc' = "done"
            /\ sig_result' = Some(outcome)

\* let signature_raw = base64::decode(signature_str)?;
DecodeSignature ==
    /\ sig_pc = "base64_decode"
    /\ LET decoded == Base64Decode(signature_str)
       IN  /\ signature_raw' = IF decoded.ok THEN Some(decoded.bytes) ELSE signature_raw
           /\ SigQuestion(IF decoded.ok THEN Ok ELSE FromBase64DecodeError, "from_der")
    /\ UNCHANGED << sig_args, signature, trust_vars, rest_vars >>

\* let signature = Signature::<p256::NistP256>::from_der(&signature_raw)?;
ParseSignature ==
    /\ sig_pc = "from_der"
    /\ LET parsed == SignatureFromDer(signature_raw[1])
       IN  /\ signature' = IF parsed.ok
                           THEN Some([ r |-> parsed.r, s |-> parsed.s ])
                           ELSE signature
           /\ SigQuestion(IF parsed.ok THEN Ok ELSE FromEcdsaError, "verify")
    /\ UNCHANGED << sig_args, signature_raw, trust_vars, rest_vars >>

\* verification_key.verify(msg, &signature)?; Ok(())
VerifySignature ==
    /\ sig_pc = "verify"
    /\ SigQuestion(IF EcdsaVerify(verification_key, msg, signature[1])
                   THEN Ok
                   ELSE FromEcdsaError,
                   "done")
    /\ UNCHANGED << sig_args, signature_raw, signature, trust_vars, rest_vars >>

(***************************************************************************)
(* The key loader.                                                         *)
(***************************************************************************)
NewVerificationKey ==
    /\ key_pc = "new_verification_key"
    /\ key_pc' = "done"
    /\ key_result' = Some(new_verification_key(key_input))
    /\ UNCHANGED << key_op, key_input, key_pem, trust_vars, sig_vars, conc_vars, perm_vars, repeat_vars >>

NewVerificationKeyFromPublicKeyDer ==
    /\ key_pc = "new_verification_key_from_public_key_der"
    /\ key_pc' = "done"
    /\ key_result' = Some(new_verification_key_from_public_key_der(key_input))
    /\ UNCHANGED << key_op, key_input, key_pem, trust_vars, sig_vars, conc_vars, perm_vars, repeat_vars >>

\* let (_, pem) = parse_x509_pem(cert)?;
ParseX509Pem ==
    /\ key_pc = "parse_x509_pem"
    /\ LET parsed == ParseX509PemOf(key_input)
       IN  IF IsOk(parsed)
           THEN /\ key_pem' = parsed.ok
                /\ key_pc' = "parse_x509_certificate"
                /\ key_result' = key_result
           ELSE /\ key_pem' = key_pem
                /\ key_pc' = "done"
                /\ key_result' = Some(ResultErr(FromPemError))
    /\ UNCHANGED << key_op, key_input, trust_vars, sig_vars, conc_vars, perm_vars, repeat_vars >>

\* let (_, res_x509) = parse_x509_certificate(&pem.contents)?;
\* Ok(res_x509.public_key().raw.to_owned())
ParseX509Certificate ==
    /\ key_pc = "parse_x509_certificate"
    /\ LET parsed == ParseX509CertificateOf(key_pem[1].contents)
       IN  key_result' = IF IsOk(parsed)
                         THEN Some(ResultOk(PublicKeyRaw(parsed.ok[1])))
                         ELSE Some(ResultErr(FromX509ParseError))
    /\ key_pc' = "done"
    /\ UNCHANGED << key_op, key_input, key_pem, trust_vars, sig_vars, conc_vars, perm_vars, repeat_vars >>

(***************************************************************************)
(* Concurrent calls.  Both verifiers are free functions over borrowed      *)
(* arguments: the module has no static, no cache and no lock, and every    *)
(* `let` of a body is a binding of that call alone.  The calls share their *)
(* arguments and the system clock; each takes its steps one at a time, in  *)
(* any order with the steps of the others and with the ticks of the clock. *)
(***************************************************************************)
MaxCalls == 2

Threads == 1..MaxCalls

CallKinds == { "verify_certificate_can_be_trusted", "verify_signature" }

\* The local bindings of a call at its entry.
Entry(kind) ==
    [ kind |-> kind,
      pc |-> IF kind = "verify_signature" THEN "base64_decode" ELSE "verify_issuer",
      now |-> None,
      signature_raw |-> None,
      signature |-> None,
      result |-> None ]

\* The certificates the concurrent calls share: well-formed ones from the
\* trusted CA that become valid at each time, and one from another CA.
ConcCertificates ==
    { IssuedCertificate(
          [ key_usage |-> Some([ digital_signature |-> TRUE ]),
            extended_key_usage |-> Some([ code_signing |-> TRUE ]),
            subject_alternative_name |-> Some("email"),
            validity |-> [ not_before |-> t, not_after |-> MaxTime ] ],
          k, TRUE) :
        t \in Times, k \in { "ca_x" } }
      \cup { IssuedCertificate(
                 [ key_usage |-> Some([ digital_signature |-> TRUE ]),
                   extended_key_usage |-> Some([ code_signing |-> TRUE ]),
                   subject_alternative_name |-> Some("email"),
                   validity |-> [ not_before |-> 0, not_after |-> MaxTime ] ],
                 "ca_y", TRUE) }

\* The signature texts they share: a signature of the key over the message,
\* one of another key, a DER signature with r = 0, and a text that is not
\* base64.
ConcSignatureTexts ==
    LET made(k) == Base64Encode(DerSignature(EcdsaSign(k, "manifest", 1).r,
                                             EcdsaSign(k, "manifest", 1).s))
    IN  { made("key_a"), made("key_b"),
          Base64Encode(DerSignature(0, 1)),
          SubSeq(made("key_a"), 1, 9) }

ConcInit ==
    /\ clock = 0
    /\ certificate \in ConcCertificates
    /\ ca_issuer_public_key = "ca_x"
    /\ integrated_time \in Times
    /\ pc = "idle"
    /\ now = None
    /\ checked = << >>
    /\ result = None
    /\ verification_key = "key_a"
    /\ signature_str \in ConcSignatureTexts
    /\ msg = "manifest"
    /\ sig_pc = "idle"
    /\ signature_raw = None
    /\ signature = None
    /\ sig_checked = << >>
    /\ sig_result = None
    /\ calls \in [ Threads -> { Entry(k) : k \in CallKinds } ]

\* Faulty variant: the time reading is kept in a place all calls share.
StoreShared(t, local) ==
    calls' = [ u \in Threads |->
                 IF u = t THEN local ELSE [ calls[u] EXCEPT !.now = local.now ] ]

\* A step of call t rebinds the locals of call t.
Store(t, local) == calls' = [ calls EXCEPT ![t] = local ]

\* The `?` after a statement of a call with bindings `local`.
Answer(local, outcome, next) ==
    IF outcome = Ok
    THEN [ local EXCEPT !.pc = next,
                        !.result = IF next = "done" THEN Some(Ok) ELSE @ ]
    ELSE [ local EXCEPT !.pc = "done", !.result = Some(outcome) ]

CallVerifyIssuer(t) ==
    /\ calls[t].pc = "verify_issuer"
    /\ Store(t, Answer(calls[t],
                       verify_issuer(certificate, ca_issuer_public_key),
                       "verify_certificate_key_usages"))
    /\ UNCHANGED << trust_vars, sig_vars, key_vars, perm_vars, repeat_vars >>

CallVerifyCertificateKeyUsages(t) ==
    /\ calls[t].pc = "verify_certificate_key_usages"
    /\ Store(t, Answer(calls[t],
                       verify_certificate_key_usages(certificate),
                       "verify_certificate_has_san"))
    /\ UNCHANGED << trust_vars, sig_vars, key_vars, perm_vars, repeat_vars >>

CallVerifyCertificateHasSan(t) ==
    /\ calls[t].pc = "verify_certificate_has_san"
    /\ Store(t, Answer(calls[t],
                       verify_certificate_has_san(certificate),
                       "verify_certificate_validity"))
    /\ UNCHANGED << trust_vars, sig_vars, key_vars, perm_vars, repeat_vars >>

\* let now = ASN1Time::now(); a binding of this call.
CallVerifyCertificateValidity(t) ==
    /\ calls[t].pc = "verify_certificate_validity"
    /\ Store(t, Answer([ calls[t] EXCEPT !.now = Some(clock) ],
                       verify_certificate_validity(certificate, clock),
                       "verify_certificate_expiration"))
    /\ UNCHANGED << trust_vars, sig_vars, key_vars, perm_vars, repeat_vars >>

CallVerifyCertificateExpiration(t) ==
    /\ calls[t].pc = "verify_certificate_expiration"
    /\ Store(t, Answer(calls[t],
                       verify_certificate_expiration(certificate, integrated_time),
                       "done"))
    /\ UNCHANGED << trust_vars, sig_vars, key_vars, perm_vars, repeat_vars >>

CallDecodeSignature(t) ==
    /\ calls[t].pc = "base64_decode"
    /\ LET decoded == Base64Decode(signature_str)
       IN  Store(t, Answer([ calls[t] EXCEPT
                                !.signature_raw =
                                    IF decoded.ok THEN Some(decoded.bytes) ELSE @ ],
                           IF decoded.ok THEN Ok ELSE FromBase64DecodeError,
                           "from_der"))
    /\ UNCHANGED << trust_vars, sig_vars, key_vars, perm_vars, repeat_vars >>

CallParseSignature(t) ==
    /\ calls[t].pc = "from_der"
    /\ LET parsed == SignatureFromDer(calls[t].signature_raw[1])
       IN  Store(t, Answer([ calls[t] EXCEPT
                                !.signature =
                                    IF parsed.ok
                                    THEN Some([ r |-> parsed.r, s |-> parsed.s ])
                                    ELSE @ ],
                           IF parsed.ok THEN Ok ELSE FromEcdsaError,
                           "verify"))
    /\ UNCHANGED << trust_vars, sig_vars, key_vars, perm_vars, repeat_vars >>

CallVerifySignature(t) ==
    /\ calls[t].pc = "verify"
    /\ Store(t, Answer(calls[t],
                       IF EcdsaVerify(verification_key, msg, calls[t].signature[1])
                       THEN Ok
                       ELSE FromEcdsaError,
                       "done"))
    /\ UNCHANGED << trust_vars, sig_vars, key_vars, perm_vars, repeat_vars >>

(***************************************************************************)
(* The six conditions of verify_certificate_can_be_trusted run in another  *)
(* order: each is a function of the arguments and of one time reading, and *)
(* the run returns at the first that fails.  perm_ran holds the conditions *)
(* that have been run.                                                     *)
(***************************************************************************)
PermChecks ==
    { "verify_issuer", "key_usage", "extended_key_usage",
      "verify_certificate_has_san", "verify_certificate_validity",
      "verify_certificate_expiration" }

PermInit ==
    /\ clock = 0
    /\ certificate \in Certificates
    /\ ca_issuer_public_key = "ca_x"
    /\ integrated_time \in Times
    /\ pc = "idle"
    /\ now = None
    /\ checked = << >>
    /\ result = None
    /\ perm_now \in Times
    /\ perm_ran = { }
    /\ perm_result = None

\* `check(..)?;` at any place of the sequence.
PermQuestion(check, outcome) ==
    /\ perm_ran' = perm_ran \cup { check }
    /\ perm_result' = IF outcome # Ok
                      THEN Some(outcome)
                      ELSE IF perm_ran' = PermChecks THEN Some(Ok) ELSE None
    /\ UNCHANGED << perm_now, trust_vars, sig_vars, key_vars, conc_vars, repeat_vars >>

PermVerifyIssuer ==
    /\ perm_result = None
    /\ "verify_issuer" \notin perm_ran
    /\ PermQuestion("verify_issuer", verify_issuer(certificate, ca_issuer_public_key))

PermKeyUsage ==
    /\ perm_result = None
    /\ "key_usage" \notin perm_ran
    /\ PermQuestion("key_usage", verify_key_usage_digital_signature(certificate))

PermExtendedKeyUsage ==
    /\ perm_result = None
    /\ "extended_key_usage" \notin perm_ran
    /\ PermQuestion("extended_key_usage",
                    verify_extended_key_usage_code_signing(certificate))

PermVerifyCertificateHasSan ==
    /\ perm_result = None
    /\ "verify_certificate_has_san" \notin perm_ran
    /\ PermQuestion("verify_certificate_has_san",
                    verify_certificate_has_san(certificate))

PermVerifyCertificateValidity ==
    /\ perm_result = None
    /\ "verify_certificate_validity" \notin perm_ran
    /\ PermQuestion("verify_certificate_validity",
                    verify_certificate_validity(certificate, perm_now))

PermVerifyCertificateExpiration ==
    /\ perm_result = None
    /\ "verify_certificate_expiration" \notin perm_ran
    /\ PermQuestion("verify_certificate_expiration",
                    verify_certificate_expiration(certificate, integrated_time))

(***************************************************************************)
(* The caller calls verify_certificate_can_be_trusted again with the same  *)
(* arguments once the call has returned: the new call starts with no       *)
(* binding of the one before, whose outcome `previous` remembers.          *)
(***************************************************************************)
CallAgain ==
    /\ pc = "done"
    /\ previous' = result
    /\ pc' = "verify_issuer"
    /\ now' = None
    /\ checked' = << >>
    /\ result' = None
    /\ UNCHANGED << clock, args, sig_vars, key_vars, conc_vars, perm_vars >>

(***************************************************************************)
(* Spec: a call of verify_certificate_can_be_trusted while the clock runs. *)
(***************************************************************************)
Init == TrustInit /\ SigIdle /\ KeyIdle /\ ConcIdle /\ PermIdle /\ RepeatIdle

Next ==
    \/ VerifyIssuer
    \/ VerifyCertificateKeyUsages
    \/ VerifyCertificateHasSan
    \/ VerifyCertificateValidity
    \/ VerifyCertificateExpiration
    \/ Tick

Spec == Init /\ [][Next]_vars

(***************************************************************************)
(* SigSpec: a call of verify_signature.                                    *)
(***************************************************************************)
SigSpecInit ==
    TrustIdle /\ SigInit /\ KeyIdle /\ ConcIdle /\ PermIdle /\ RepeatIdle

SigNext ==
    \/ DecodeSignature
    \/ ParseSignature
    \/ VerifySignature

SigSpec == SigSpecInit /\ [][SigNext]_vars

(***************************************************************************)
(* KeySpec: a call of a function of the key loader.                        *)
(***************************************************************************)
KeySpecInit ==
    TrustIdle /\ SigIdle /\ KeyInit /\ ConcIdle /\ PermIdle /\ RepeatIdle

KeyNext ==
    \/ NewVerificationKey
    \/ NewVerificationKeyFromPublicKeyDer
    \/ ParseX509Pem
    \/ ParseX509Certificate

KeySpec == KeySpecInit /\ [][KeyNext]_vars

(***************************************************************************)
(* ConcSpec: calls of both verifiers run concurrently while the clock      *)
(* runs.                                                                   *)
(***************************************************************************)
ConcSpecInit == ConcInit /\ KeyIdle /\ PermIdle /\ RepeatIdle

ConcNext ==
    \/ Tick
    \/ \E t \in Threads : CallVerifyIssuer(t)
    \/ \E t \in Threads : CallVerifyCertificateKeyUsages(t)
    \/ \E t \in Threads : CallVerifyCertificateHasSan(t)
    \/ \E t \in Threads : CallVerifyCertificateValidity(t)
    \/ \E t \in Threads : CallVerifyCertificateExpiration(t)
    \/ \E t \in Threads : CallDecodeSignature(t)
    \/ \E t \in Threads : CallParseSignature(t)
    \/ \E t \in Threads : CallVerifySignature(t)

ConcSpec == ConcSpecInit /\ [][ConcNext]_vars

(***************************************************************************)
(* PermSpec: the six conditions run in every order.                        *)
(***************************************************************************)
PermSpecInit == PermInit /\ SigIdle /\ KeyIdle /\ ConcIdle /\ RepeatIdle

PermNext ==
    \/ PermVerifyIssuer
    \/ PermKeyUsage
    \/ PermExtendedKeyUsage
    \/ PermVerifyCertificateHasSan
    \/ PermVerifyCertificateValidity
    \/ PermVerifyCertificateExpiration

PermSpec == PermSpecInit /\ [][PermNext]_vars

(***************************************************************************)
(* RepeatSpec: calls of verify_certificate_can_be_trusted on the same      *)
(* arguments, one after the other, while the clock runs.                   *)
(***************************************************************************)
RepeatNext ==
    \/ VerifyIssuer
    \/ VerifyCertificateKeyUsages
    \/ VerifyCertificateHasSan
    \/ VerifyCertificateValidity
    \/ VerifyCertificateExpiration
    \/ Tick
    \/ CallAgain

RepeatSpec == Init /\ [][RepeatNext]_vars

(***************************************************************************)
(* The vocabulary of the properties: the conditions the checks are about,  *)
(* read off the state of a call of verify_certificate_can_be_trusted.      *)
(***************************************************************************)
Tbs == certificate.tbs_certificate

NotBefore == Tbs.validity.not_before

NotAfter == Tbs.validity.not_after

\* The current time of the call: the clock value it read, and the clock
\* itself for a call that returned before reading it.
CurrentTime == IF now = None THEN clock ELSE now[1]

IssuerSignatureHolds ==
    certificate.signature = [ signer |-> ca_issuer_public_key, signed |-> Tbs ]

DigitalSignatureUsageHolds ==
    \E b \in BOOLEAN : b /\ Tbs.key_usage = Some([ digital_signature |-> b ])

CodeSigningUsageHolds ==
    \E b \in BOOLEAN : b /\ Tbs.extended_key_usage = Some([ code_signing |-> b ])

IdentityBindingHolds == Len(Tbs.subject_alternative_name) = 1

NotYetValid == CurrentTime < NotBefore

SignedBeforeCertValid == integrated_time < NotBefore

SignedAfterCertExpired == integrated_time > NotAfter

Ran(check) == \E i \in DOMAIN checked : checked[i].check = check

OutcomeOf(check) ==
    checked[CHOOSE i \in DOMAIN checked : checked[i].check = check].outcome

\* The checks in the order of the documentation.
CheckOrder ==
    << "verify_issuer", "verify_certificate_key_usages", "verify_certificate_has_san",
       "verify_certificate_validity", "verify_certificate_expiration" >>

\* The error of the first check, in the documented order, that fails.
FirstFailure ==
    IF ~ IssuerSignatureHolds THEN "X509Error"
    ELSE IF ~ DigitalSignatureUsageHolds
    THEN "CertificateWithoutDigitalSignatureKeyUsage"
    ELSE IF ~ CodeSigningUsageHolds THEN "CertificateWithoutCodeSigningKeyUsage"
    ELSE IF ~ IdentityBindingHolds THEN "CertificateWithoutSubjectAlternativeName"
    ELSE IF NotYetValid THEN "CertificateValidityError"
    ELSE IF SignedBeforeCertValid
    THEN "CertificateExpiredBeforeSignaturesSubmittedToRekor"
    ELSE IF SignedAfterCertExpired
    THEN "CertificateIssuedAfterSignaturesSubmittedToRekor"
    ELSE Ok

(***************************************************************************)
(* C1.  verify_certificate_can_be_trusted runs its checks in the order     *)
(* issuer signature, key usage, extended key usage, subject alternative    *)
(* name, not-yet-valid, signing window: the checks run so far are always a *)
(* prefix of that order, every check but the last one run has passed, and  *)
(* the call returns the error of the first check of that order that fails  *)
(* (Ok when none does), whatever later checks would fail too.              *)
(***************************************************************************)
C1_FirstFailureInOrder ==
    /\ Len(checked) <= Len(CheckOrder)
    /\ \A i \in DOMAIN checked :
          /\ checked[i].check = CheckOrder[i]
          /\ i < Len(checked) => checked[i].outcome = Ok
    /\ pc = "done" => result = Some(FirstFailure)

\* A call has returned the key-usage error for a certificate that fails
\* the three later checks as well.
C1_Witness ==
    /\ pc = "done"
    /\ IssuerSignatureHolds
    /\ ~ DigitalSignatureUsageHolds
    /\ ~ CodeSigningUsageHolds
    /\ ~ IdentityBindingHolds
    /\ NotYetValid
    /\ SignedAfterCertExpired
    /\ result = Some("CertificateWithoutDigitalSignatureKeyUsage")

(***************************************************************************)
(* C2.  A call that has returned has returned Ok exactly when the six      *)
(* conditions hold together: (a) the issuer signature verifies against the *)
(* CA key, (b) key usage with the digital-signature bit, (c) extended key  *)
(* usage with code signing, (d) a subject alternative name, (e) current    *)
(* time >= not_before, (f) not_before <= integrated_time <= not_after; in  *)
(* every other case it has returned one of the errors.                     *)
(***************************************************************************)
AllSixHold ==
    /\ IssuerSignatureHolds
    /\ DigitalSignatureUsageHolds
    /\ CodeSigningUsageHolds
    /\ IdentityBindingHolds
    /\ CurrentTime >= NotBefore
    /\ NotBefore <= integrated_time /\ integrated_time <= NotAfter

C2_OkIffAllSix ==
    pc = "done" =>
        /\ result # None
        /\ result = Some(Ok) <=> AllSixHold
        /\ result # Some(Ok) => result[1] \in TrustErrors

\* A call has run all five functions and returned Ok.
C2_Witness ==
    /\ pc = "done"
    /\ AllSixHold
    /\ Len(checked) = Len(CheckOrder)
    /\ result = Some(Ok)

(***************************************************************************)
(* C3.  No certificate is refused because the current time is after        *)
(* not_after: a call on a certificate that passes the issuer, key-usage,   *)
(* extended-key-usage and SAN checks, with integrated_time inside          *)
(* [not_before, not_after], returns Ok for every current time >=           *)
(* not_before, those after not_after included; and the outcome of the      *)
(* current-time check is the same whatever not_after is.                   *)
(***************************************************************************)
WithNotAfter(cert, t) == [ cert EXCEPT !.tbs_certificate.validity.not_after = t ]

C3_NeverExpiresByCurrentTime ==
    /\ ( /\ pc = "done"
         /\ IssuerSignatureHolds
         /\ DigitalSignatureUsageHolds
         /\ CodeSigningUsageHolds
         /\ IdentityBindingHolds
         /\ NotBefore <= integrated_time /\ integrated_time <= NotAfter
         /\ CurrentTime >= NotBefore )
       => result = Some(Ok)
    /\ \A t \in Times, a \in Times :
          verify_certificate_validity(WithNotAfter(certificate, a), t)
            = verify_certificate_validity(certificate, t)

\* A call that read a current time after not_after has returned Ok.
C3_Witness ==
    /\ pc = "done"
    /\ now # None
    /\ CurrentTime > NotAfter
    /\ result = Some(Ok)

(***************************************************************************)
(* C4.  Signing window.  For a certificate valid from T0 = not_before to   *)
(* T1 = not_after (T0 <= T1), verify_certificate_expiration returns        *)
(* CertificateExpiredBeforeSignaturesSubmittedToRekor (the specification's *)
(* SignedBeforeCertValid) when integrated_time < T0,                       *)
(* CertificateIssuedAfterSignaturesSubmittedToRekor (SignedAfterCertExpired)*)
(* when integrated_time > T1, and Ok for every integrated_time with        *)
(* T0 <= integrated_time <= T1, both ends included.  For every certificate *)
(* it passes exactly inside the window.                                    *)
(***************************************************************************)
WindowClaim(cert, it, outcome) ==
    LET T0 == cert.tbs_certificate.validity.not_before
        T1 == cert.tbs_certificate.validity.not_after
    IN  /\ T0 <= T1 =>
            /\ it < T0 => outcome = "CertificateExpiredBeforeSignaturesSubmittedToRekor"
            /\ it > T1 => outcome = "CertificateIssuedAfterSignaturesSubmittedToRekor"
        /\ (T0 <= it /\ it <= T1) <=> outcome = Ok
        /\ it = T0 /\ T0 <= T1 => outcome = Ok
        /\ it = T1 /\ T0 <= T1 => outcome = Ok

C4_SigningWindow ==
    /\ \A it \in Times :
          WindowClaim(certificate, it, verify_certificate_expiration(certificate, it))
    /\ Ran("verify_certificate_expiration") =>
          WindowClaim(certificate, integrated_time,
                      OutcomeOf("verify_certificate_expiration"))

\* The window check has passed an integrated time equal to not_after, the
\* window holding more than one instant.
C4_Witness ==
    /\ Ran("verify_certificate_expiration")
    /\ NotBefore < NotAfter
    /\ integrated_time = NotAfter
    /\ OutcomeOf("verify_certificate_expiration") = Ok

(***************************************************************************)
(* C5.  Not yet valid.  verify_certificate_validity fails, with            *)
(* CertificateValidityError (the specification's NotYetValid), exactly     *)
(* when the current time is strictly before not_before: it passes at       *)
(* not_before and at every later time, whatever not_after is.              *)
(***************************************************************************)
ValidityClaim(t, outcome) ==
    /\ t < NotBefore <=> outcome = "CertificateValidityError"
    /\ t >= NotBefore <=> outcome = Ok

C5_NotYetValid ==
    /\ \A t \in Times : ValidityClaim(t, verify_certificate_validity(certificate, t))
    /\ Ran("verify_certificate_validity") =>
          /\ now # None
          /\ ValidityClaim(now[1], OutcomeOf("verify_certificate_validity"))

\* The check has passed a current time equal to not_before.
C5_Witness ==
    /\ Ran("verify_certificate_validity")
    /\ now = Some(NotBefore)
    /\ OutcomeOf("verify_certificate_validity") = Ok

(***************************************************************************)
(* C6.  Issuer.  For a certificate issued and signed by a CA X,            *)
(* verify_issuer returns Ok against X's key and X509Error (the             *)
(* specification's IssuerMismatch) against the key of any other CA; and a  *)
(* call of verify_certificate_can_be_trusted whose CA key does not verify  *)
(* the issuer signature returns X509Error whatever else the certificate    *)
(* holds.                                                                  *)
(***************************************************************************)
C6_IssuerCheck ==
    /\ \A x \in CAKeys, k \in CAKeys :
          LET issued == IssuedCertificate(Tbs, x, TRUE)
          IN  verify_issuer(issued, k) = IF k = x THEN Ok ELSE "X509Error"
    /\ Ran("verify_issuer") =>
          OutcomeOf("verify_issuer")
            = IF IssuerSignatureHolds THEN Ok ELSE "X509Error"
    /\ pc = "done" /\ ~ IssuerSignatureHolds => result = Some("X509Error")

\* A call with the key of another CA than the one that signed the
\* certificate has returned X509Error, for a certificate with no key usage.
C6_Witness ==
    /\ pc = "done"
    /\ certificate.signature.signed = Tbs
    /\ certificate.signature.signer # ca_issuer_public_key
    /\ ~ DigitalSignatureUsageHolds
    /\ result = Some("X509Error")

(***************************************************************************)
(* C7.  Key usages.  verify_certificate_key_usages returns                 *)
(* CertificateWithoutDigitalSignatureKeyUsage when the key-usage extension *)
(* is absent or lacks the digital-signature bit, whatever the other fields *)
(* are (a missing extended key usage included);                            *)
(* CertificateWithoutCodeSigningKeyUsage when the digital-signature usage  *)
(* is there and the extended key usage is absent or lacks code signing;    *)
(* Ok when both are there.                                                 *)
(***************************************************************************)
KeyUsagesClaim(outcome) ==
    /\ ~ DigitalSignatureUsageHolds =>
          outcome = "CertificateWithoutDigitalSignatureKeyUsage"
    /\ DigitalSignatureUsageHolds /\ ~ CodeSigningUsageHolds =>
          outcome = "CertificateWithoutCodeSigningKeyUsage"
    /\ DigitalSignatureUsageHolds /\ CodeSigningUsageHolds => outcome = Ok

C7_KeyUsages ==
    /\ KeyUsagesClaim(verify_certificate_key_usages(certificate))
    /\ Ran("verify_certificate_key_usages") =>
          KeyUsagesClaim(OutcomeOf("verify_certificate_key_usages"))

\* The check has refused a certificate whose key usage lacks the bit and
\* whose extended key usage is absent, for the missing bit.
C7_Witness ==
    /\ Ran("verify_certificate_key_usages")
    /\ Tbs.key_usage = Some([ digital_signature |-> FALSE ])
    /\ Tbs.extended_key_usage = None
    /\ OutcomeOf("verify_certificate_key_usages")
         = "CertificateWithoutDigitalSignatureKeyUsage"

(***************************************************************************)
(* C8.  Identity binding.  verify_certificate_has_san returns              *)
(* CertificateWithoutSubjectAlternativeName for a certificate with no      *)
(* subject-alternative-name extension and Ok for one that carries it,      *)
(* whether it names an email address or a URI.                             *)
(***************************************************************************)
WithSan(cert, san) ==
    [ cert EXCEPT !.tbs_certificate.subject_alternative_name = san ]

C8_SanPresenceOnly ==
    /\ verify_certificate_has_san(WithSan(certificate, None))
         = "CertificateWithoutSubjectAlternativeName"
    /\ \A v \in { "email", "uri" } :
          verify_certificate_has_san(WithSan(certificate, Some(v))) = Ok
    /\ Ran("verify_certificate_has_san") =>
          OutcomeOf("verify_certificate_has_san")
            = IF Tbs.subject_alternative_name = None
              THEN "CertificateWithoutSubjectAlternativeName"
              ELSE Ok

\* The check has passed a certificate whose identity is a URI.
C8_Witness ==
    /\ Ran("verify_certificate_has_san")
    /\ Tbs.subject_alternative_name = Some("uri")
    /\ OutcomeOf("verify_certificate_has_san") = Ok

(***************************************************************************)
(* The vocabulary of the properties of verify_signature.  The texts are    *)
(* told apart by how they were made, not by what the decoders say.         *)
(***************************************************************************)
SigRan(check) == \E i \in DOMAIN sig_checked : sig_checked[i].check = check

SigOrder == << "base64_decode", "from_der", "verify" >>

\* The text a signer hands out for the signature made with `key` over
\* `message` with nonce k.
SignatureText(key, message, k) ==
    LET sig == EcdsaSign(key, message, k)
    IN  Base64Encode(DerSignature(sig.r, sig.s))

\* The text is a signature made with the key and over the message of the call.
MadeForThisCall ==
    \E k \in 1..MaxNonce : signature_str = SignatureText(verification_key, msg, k)

(***************************************************************************)
(* C9 as stated.  verify_signature reports the first failing step with a   *)
(* kind of its own: Base64DecodeError for a text that is not base64; an    *)
(* error for base64 of bytes that are no DER signature that is another     *)
(* kind than the one of a failed verification (a format failure is never   *)
(* reported as the specification's SignatureInvalid, which is the code's   *)
(* EcdsaError); EcdsaError for a well-formed signature that does not       *)
(* verify.                                                                 *)
(***************************************************************************)
C9_DistinctErrorKinds ==
    sig_pc = "done" =>
        /\ signature_str \in NotBase64Texts => sig_result = Some("Base64DecodeError")
        /\ signature_str \in MalformedTexts =>
              /\ sig_result # Some(Ok)
              /\ sig_result # Some("Base64DecodeError")
              /\ sig_result # Some("EcdsaError")
        /\ signature_str \in WellFormedTexts /\ ~ MadeForThisCall =>
              sig_result = Some("EcdsaError")

(***************************************************************************)
(* C9 as amended.  verify_signature runs base64 decoding, DER parsing and  *)
(* the verification in this order and returns at the first that fails: a   *)
(* text that is not base64 fails with Base64DecodeError whatever the key   *)
(* and the message are; base64 of bytes that are no DER signature fails    *)
(* with EcdsaError, the same kind a well-formed signature that does not    *)
(* verify fails with; no later step is run once a step has failed, so the  *)
(* verification is run for well-formed signatures only.                    *)
(***************************************************************************)
C9_FirstFailingStep ==
    /\ Len(sig_checked) <= Len(SigOrder)
    /\ \A i \in DOMAIN sig_checked :
          /\ sig_checked[i].check = SigOrder[i]
          /\ i < Len(sig_checked) => sig_checked[i].outcome = Ok
    /\ SigRan("from_der") => signature_str \notin NotBase64Texts
    /\ SigRan("verify") => signature_str \in WellFormedTexts
    /\ sig_pc = "done" =>
          /\ signature_str \in NotBase64Texts =>
                /\ sig_result = Some("Base64DecodeError")
                /\ Len(sig_checked) = 1
          /\ signature_str \in MalformedTexts =>
                /\ sig_result = Some("EcdsaError")
                /\ Len(sig_checked) = 2
          /\ signature_str \in WellFormedTexts /\ ~ MadeForThisCall =>
                /\ sig_result = Some("EcdsaError")
                /\ Len(sig_checked) = 3

\* A call has returned EcdsaError from the DER parsing of a text that is
\* base64, without running the verification.
C9_Witness ==
    /\ sig_pc = "done"
    /\ signature_str \in MalformedTexts
    /\ signature_raw # None
    /\ ~ SigRan("verify")
    /\ sig_result = Some("EcdsaError")

(***************************************************************************)
(* C10.  verify_signature accepts a signature exactly for the key and the  *)
(* message it was made with: the text of a signature made with key K over  *)
(* message M verifies against K and M, fails with EcdsaError (the          *)
(* specification's SignatureInvalid) against K and any other message, and  *)
(* fails with EcdsaError against any other key.                            *)
(***************************************************************************)
C10_ExactlyKeyAndMessage ==
    \A i \in DOMAIN VerificationKeys, j \in DOMAIN Messages, k \in 1..MaxNonce :
        ( /\ sig_pc = "done"
          /\ signature_str = SignatureText(VerificationKeys[i], Messages[j], k) )
        => sig_result = IF /\ verification_key = VerificationKeys[i]
                           /\ msg = Messages[j]
                        THEN Some(Ok)
                        ELSE Some("EcdsaError")

\* A call has refused, with EcdsaError, a signature made with its key over
\* another message than its own.
C10_Witness ==
    /\ sig_pc = "done"
    /\ \E j \in DOMAIN Messages, k \in 1..MaxNonce :
          /\ Messages[j] # msg
          /\ signature_str = SignatureText(verification_key, Messages[j], k)
    /\ SigRan("verify")
    /\ sig_result = Some("EcdsaError")

(***************************************************************************)
(* C11.  The key loader yields a key for no bad input and tags every       *)
(* failure with the documented kind.  new_verification_key and             *)
(* new_verification_key_from_public_key_der return a key exactly for a     *)
(* well-formed SubjectPublicKeyInfo of an ECDSA key on P-256 (in a         *)
(* well-formed PUBLIC KEY armor, for the first), the key of that           *)
(* SubjectPublicKeyInfo, and fail with InvalidKeyFormat otherwise: for a   *)
(* malformed encoding, another algorithm or another curve.                 *)
(* extract_public_key_from_pem_cert returns bytes exactly for a            *)
(* well-formed armor around a well-formed certificate, the bytes of the    *)
(* SubjectPublicKeyInfo it embeds, and fails with CertificateParseError    *)
(* otherwise, whether the armor or the certificate is malformed.           *)
(***************************************************************************)
WellFormedP256(bytes) ==
    \E k \in SubjectPublicKeyInfos :
        /\ bytes = DerSpki(k)
        /\ k.algorithm = "id-ecPublicKey"
        /\ k.curve = "prime256v1"
        /\ k.point_ok

KeyLoaderClaim(spki_bytes, wellformed_armor) ==
    LET r == key_result[1]
    IN  IF wellformed_armor /\ WellFormedP256(spki_bytes)
        THEN r = ResultOk([ verifying_key |-> spki_bytes.spki[1] ])
        ELSE r = ResultErr("InvalidKeyFormat")

C11_KeyLoaderFailures ==
    key_pc = "done" =>
        /\ key_result # None
        /\ key_op = "new_verification_key" =>
              KeyLoaderClaim(key_input.contents,
                             key_input.armor_ok /\ key_input.label = "PUBLIC KEY")
        /\ key_op = "new_verification_key_from_public_key_der" =>
              KeyLoaderClaim(key_input, TRUE)
        /\ key_op = "extract_public_key_from_pem_cert" =>
              IF key_input.armor_ok /\ key_input.contents.der = "certificate"
              THEN key_result[1] = ResultOk(DerSpki(key_input.contents.spki[1]))
              ELSE key_result[1] = ResultErr("CertificateParseError")

\* new_verification_key has refused, with InvalidKeyFormat, a well-armored
\* elliptic-curve key on another curve than P-256.
C11_Witness ==
    /\ key_pc = "done"
    /\ key_op = "new_verification_key"
    /\ key_input.armor_ok
    /\ key_input.label = "PUBLIC KEY"
    /\ key_input.contents.der = "spki"
    /\ key_input.contents.spki[1].algorithm = "id-ecPublicKey"
    /\ key_input.contents.spki[1].curve = "secp384r1"
    /\ key_input.contents.spki[1].point_ok
    /\ key_result = Some(ResultErr("InvalidKeyFormat"))

(***************************************************************************)
(* C12.  Calls of verify_signature and verify_certificate_can_be_trusted   *)
(* that run concurrently on shared arguments do not affect each other.     *)
(* No step changes an argument; a step changes the bindings of one call    *)
(* only; a call that has returned keeps its outcome; and the outcome of    *)
(* every call that has returned is the one the function gives, run alone,  *)
(* for the same arguments and the time reading the call took.              *)
(***************************************************************************)
RunAlone(call) ==
    IF call.kind = "verify_signature"
    THEN verify_signature(verification_key, signature_str, msg)
    ELSE verify_certificate_can_be_trusted(
             certificate, ca_issuer_public_key, integrated_time,
             IF call.now = None THEN clock ELSE call.now[1])

C12_ConcurrentCallsAsAlone ==
    [][ /\ args' = args
        /\ sig_args' = sig_args
        /\ \A t \in DOMAIN calls :
              /\ calls[t].pc = "done" => calls'[t] = calls[t]
              /\ calls'[t] # calls[t] =>
                    \A u \in DOMAIN calls \ { t } : calls'[u] = calls[u]
              /\ calls'[t].pc = "done" => calls'[t].result = Some(RunAlone(calls'[t]))
      ]_vars

\* Two calls of verify_certificate_can_be_trusted on the same arguments have
\* returned: the clock advanced between their readings, and the first
\* returned an error while the second returned Ok.
C12_Witness ==
    /\ Len(calls) >= 2
    /\ calls[1].pc = "done"
    /\ calls[2].pc = "done"
    /\ calls[1].kind = "verify_certificate_can_be_trusted"
    /\ calls[2].kind = "verify_certificate_can_be_trusted"
    /\ calls[1].now # None
    /\ calls[2].now # None
    /\ calls[1].now[1] < calls[2].now[1]
    /\ calls[1].result = Some("CertificateValidityError")
    /\ calls[2].result = Some(Ok)

(***************************************************************************)
(* C13.  The decision of verify_certificate_can_be_trusted does not depend *)
(* on the order of its six conditions.  For every certificate, CA key,     *)
(* integrated time and current time, a run of the conditions in any order  *)
(* that returns at the first failure accepts exactly when the function, in *)
(* the order of the code, accepts; when both reject, the error kind of the *)
(* run is that of a condition that fails, which the order selects.  The    *)
(* two key-usage conditions, in the order of the code, are                 *)
(* verify_certificate_key_usages.                                          *)
(***************************************************************************)
InOrderOutcome ==
    verify_certificate_can_be_trusted(certificate, ca_issuer_public_key,
                                      integrated_time, perm_now)

FailingKinds ==
    { verify_issuer(certificate, ca_issuer_public_key),
      verify_key_usage_digital_signature(certificate),
      verify_extended_key_usage_code_signing(certificate),
      verify_certificate_has_san(certificate),
      verify_certificate_validity(certificate, perm_now),
      verify_certificate_expiration(certificate, integrated_time) } \ { Ok }

Heading ==
    verify_certificate_can_be_trusted(certificate, ca_issuer_public_key,
                                      integrated_time, CurrentTime)

\* C14 as stated: the clock is read at most once, before the sequence of
\* checks and never in the middle of it, so that a tick of the clock while
\* the call runs, its first check made, does not change the outcome the call
\* returns.
C14_TimeReadBeforeTheChecks ==
    [][ /\ now' # now => now = None /\ checked = << >>
        /\ (clock' # clock /\ checked # << >> /\ pc # "done") => Heading' = Heading
      ]_vars

\* C14 as the code has it: the clock is read by verify_certificate_validity
\* itself, the fourth check, and so at most once and only by a call whose
\* first three checks passed; the reading is never replaced; the comparison
\* with the current time uses it; a tick after it changes nothing; and the
\* outcome returned is the function of the arguments and of the reading (of
\* the arguments alone, whatever the time, when the clock was not read).
C14_TimeReadOnceByValidityCheck ==
    [][ /\ now' # now =>
              /\ now = None
              /\ pc = "verify_certificate_validity"
              /\ Len(checked) = 3
              /\ now' = Some(clock)
        /\ (now' # None) <=> Ran("verify_certificate_validity")'
        /\ now' # None =>
              OutcomeOf("verify_certificate_validity")'
                = verify_certificate_validity(certificate', now'[1])
        /\ (clock' # clock /\ now # None) => Heading' = Heading
        /\ pc' = "done" =>
              IF now' = None
              THEN \A t \in Times :
                      result' = Some(verify_certificate_can_be_trusted(
                                         certificate', ca_issuer_public_key',
                                         integrated_time', t))
              ELSE result' = Some(Heading')
      ]_vars

\* The clock advanced while the first three checks ran: the call read it
\* afterwards and accepted a certificate that was not yet valid when the call
\* started.
C14_Witness ==
    /\ pc = "done"
    /\ result = Some(Ok)
    /\ now = Some(clock)
    /\ NotBefore = clock
    /\ clock > 0

(***************************************************************************)
(* C15.  Repeated calls on the same certificate, CA key and integrated     *)
(* time stabilise, the clock never going back.  A call returns what the    *)
(* call before it returned, unless that was CertificateValidityError (not  *)
(* yet valid): then it returns that again or the outcome of                *)
(* verify_certificate_expiration, the signing-window check.  So Ok is      *)
(* followed by Ok and every other error by the same error.                 *)
(***************************************************************************)
C15_RepeatedCallsStabilise ==
    (pc = "done" /\ previous # None) =>
        \/ result = previous
        \/ /\ previous = Some("CertificateValidityError")
           /\ result = Some(verify_certificate_expiration(certificate,
                                                          integrated_time))

\* A call returned CertificateValidityError, the clock reached not_before,
\* and the next call on the same arguments returned the error of the
\* signing-window check.
C15_Witness ==
    /\ pc = "done"
    /\ previous = Some("CertificateValidityError")
    /\ result = Some("CertificateExpiredBeforeSignaturesSubmittedToRekor")

=============================================================================
